---- MODULE Spec2Model ----
(***************************************************************************)
(* A model of easy_envar (src/lib.rs): the declarations Envar, the loaded  *)
(* values LoadedEnvar, Envar::load, LoadedEnvar::export and init.          *)
(*                                                                         *)
(* Text is modelled as a sequence of one-character strings, so that        *)
(* parsing and formatting are computed character by character.  The        *)
(* process environment maps a variable name to an OS string, which is      *)
(* either absent, valid Unicode text, or not valid Unicode.  Standard      *)
(* output is the stream of characters written so far.                      *)
(***************************************************************************)
EXTENDS Integers, Sequences, FiniteSets, TLC

\* env:    the process environment, a variable name |-> its OS string
\* dirs:   the directories from the working directory upward, with their dotfiles
\* stdout: the characters written to standard output so far
\* held:   the LoadedEnvar the caller got from its last successful load
\* call:   the last call made, with its receiver and what it returned
VARIABLES env, dirs, stdout, held, call

vars == <<env, dirs, stdout, held, call>>

(***************************************************************************)
(* Bounds of the model.                                                    *)
(***************************************************************************)
\* longest text enumerated exhaustively over Alphabet
MaxLen == 2
\* newline characters on standard output after which export is not called again
MaxOut == 2
\* directories searched for a dotfile, from the working directory upward
MaxDepth == 2
\* most items in a dotfile
MaxItems == 2

(***************************************************************************)
(* u16 and u32.  An unsigned integer is held as two decimal limbs,         *)
(* hi * Limb + lo, because 2^32 - 1 exceeds the integers of the model      *)
(* checker; the arithmetic below is exact.                                 *)
(***************************************************************************)
Limb == 100000

Uint(hi, lo) == [hi |-> hi, lo |-> lo]

\* u16::MAX = 65535 and u32::MAX = 4294967295
U16_MAX == Uint(0, 65535)

U32_MAX == Uint(42949, 67295)

\* a <= b
Leq(a, b) == a.hi < b.hi \/ (a.hi = b.hi /\ a.lo <= b.lo)

\* n * 10 + d, for a digit d
MulAdd(n, d) ==
    LET x == n.lo * 10 + d
    IN  Uint(n.hi * 10 + (x \div Limb), x % Limb)

\* n / 10 and n % 10
Div10(n) == Uint(n.hi \div 10, (n.hi % 10) * (Limb \div 10) + (n.lo \div 10))

Mod10(n) == n.lo % 10

(***************************************************************************)
(* Text.                                                                   *)
(***************************************************************************)
LF == "\n"

Digit == {"0", "1", "2", "3", "4", "5", "6", "7", "8", "9"}

Alphabet == {"0", "1", "7", "+", "-", "a", " ", LF}

RECURSIVE TextsUpTo(_)
TextsUpTo(n) ==
    IF n = 0 THEN {<<>>}
    ELSE LET shorter == TextsUpTo(n - 1)
         IN  shorter \cup {Append(t, c) : t \in shorter, c \in Alphabet}

\* texts at the boundaries of the parsers
BoundaryTexts == {
    <<"t","r","u","e">>,
    <<"f","a","l","s","e">>,
    <<"T","r","u","e">>,
    <<"T","R","U","E">>,
    <<"t","r","u","e"," ">>,
    <<"a","b","c">>,
    <<"8","0","8","0">>,
    <<"6","5","5","3","5">>,
    <<"6","5","5","3","6">>,
    <<"0","6","5","5","3","5">>,
    <<"+","6","5","5","3","5">>,
    <<"6","5","5","3","a">>,
    <<"4","2","9","4","9","6","7","2","9","5">>,
    <<"4","2","9","4","9","6","7","2","9","6">>,
    <<"0","0","4","2","9","4","9","6","7","2","9","5">>,
    <<"9","9","9","9","9","9","9","9","9","9","9","9">> }

Texts == TextsUpTo(MaxLen) \cup BoundaryTexts

(***************************************************************************)
(* Result<T, E>.                                                           *)
(***************************************************************************)
Ok(v) == [ok |-> TRUE, val |-> v]

Err(e) == [ok |-> FALSE, err |-> e]

(***************************************************************************)
(* enum Envar and enum LoadedEnvar.                                        *)
(***************************************************************************)
PORT == <<"P","O","R","T">>

SECURE == <<"S","E","C","U","R","E">>

Names == {PORT, SECURE}

Kinds == {"Bool", "String", "U16", "U32"}

Envar == [tag : Kinds, key : Names]

\* mutant: the value is stored without its surrounding spaces
RECURSIVE TrimStart(_)
TrimStart(t) == IF t /= <<>> /\ Head(t) = " " THEN TrimStart(Tail(t)) ELSE t

RECURSIVE TrimEnd(_)
TrimEnd(t) ==
    IF t /= <<>> /\ t[Len(t)] = " " THEN TrimEnd(SubSeq(t, 1, Len(t) - 1)) ELSE t

LoadedStringTrimmed(key, val) == [tag |-> "String", key |-> key, s |-> TrimEnd(TrimStart(val))]

LoadedString(key, val) == [tag |-> "String", key |-> key, s |-> val]

LoadedBool(key, val) == [tag |-> "Bool", key |-> key, b |-> val]

LoadedU16(key, val) == [tag |-> "U16", key |-> key, n |-> val]

\* mutant: the U32 arm builds the U16 variant
LoadedU32AsU16(key, val) == [tag |-> "U16", key |-> key, n |-> val]

LoadedU32(key, val) == [tag |-> "U32", key |-> key, n |-> val]

\* the caller holds no loaded value yet
NoValue == [tag |-> "None"]

(***************************************************************************)
(* The process environment: what std::env::var sees.                       *)
(***************************************************************************)
Absent == [set |-> FALSE]

Unicode(t) == [set |-> TRUE, unicode |-> TRUE, text |-> t]

NotUnicode == [set |-> TRUE, unicode |-> FALSE]

\* mutant: an unset variable reads as the empty string
EnvVarOrEmpty(e, key) ==
    IF ~e[key].set THEN Ok(<<>>)
    ELSE IF ~e[key].unicode THEN Err([type |-> "VarError", variant |-> "NotUnicode"])
    ELSE Ok(e[key].text)

\* mutant: a value that is not valid Unicode is reported as not present
EnvVarLossy(e, key) ==
    IF ~e[key].set \/ ~e[key].unicode
    THEN Err([type |-> "VarError", variant |-> "NotPresent"])
    ELSE Ok(e[key].text)

\* std::env::var(key)
EnvVar(e, key) ==
    IF ~e[key].set THEN Err([type |-> "VarError", variant |-> "NotPresent"])
    ELSE IF ~e[key].unicode THEN Err([type |-> "VarError", variant |-> "NotUnicode"])
    ELSE Ok(e[key].text)

(***************************************************************************)
(* str::parse::<bool>, str::parse::<u16>, str::parse::<u32>.               *)
(***************************************************************************)
TrueText == <<"t","r","u","e">>

FalseText == <<"f","a","l","s","e">>

\* mutant: the capitalised and upper-case literals are accepted too
ParseBoolAnyCase(t) ==
    IF t \in {TrueText, <<"T","r","u","e">>, <<"T","R","U","E">>} THEN Ok(TRUE)
    ELSE IF t \in {FalseText, <<"F","a","l","s","e">>, <<"F","A","L","S","E">>} THEN Ok(FALSE)
    ELSE Err([type |-> "ParseBoolError"])

\* <bool as FromStr>::from_str
ParseBool(t) ==
    IF t = TrueText THEN Ok(TRUE)
    ELSE IF t = FalseText THEN Ok(FALSE)
    ELSE Err([type |-> "ParseBoolError"])

DigitChars == <<"0", "1", "2", "3", "4", "5", "6", "7", "8", "9">>

\* char::to_digit(10) of a decimal digit
ToDigit(c) == CHOOSE d \in 0..9 : DigitChars[d + 1] = c

ParseIntError(kind) == [type |-> "ParseIntError", kind |-> kind]

\* mutant: the range check excludes the maximum itself
RECURSIVE ParseDigitsExclusive(_, _, _)
ParseDigitsExclusive(digits, result, max) ==
    IF digits = <<>> THEN Ok(result)
    ELSE LET c == Head(digits)
         IN  IF ~Leq(MulAdd(result, 0), max) THEN Err(ParseIntError("PosOverflow"))
             ELSE IF c \notin Digit THEN Err(ParseIntError("InvalidDigit"))
             ELSE IF Leq(max, MulAdd(result, ToDigit(c)))
             THEN Err(ParseIntError("PosOverflow"))
             ELSE ParseDigitsExclusive(Tail(digits), MulAdd(result, ToDigit(c)), max)

\* the digit loop of from_str_radix: checked_mul, to_digit, checked_add
RECURSIVE ParseDigits(_, _, _)
ParseDigits(digits, result, max) ==
    IF digits = <<>> THEN Ok(result)
    ELSE LET c == Head(digits)
         IN  IF ~Leq(MulAdd(result, 0), max) THEN Err(ParseIntError("PosOverflow"))
             ELSE IF c \notin Digit THEN Err(ParseIntError("InvalidDigit"))
             ELSE IF ~Leq(MulAdd(result, ToDigit(c)), max)
             THEN Err(ParseIntError("PosOverflow"))
             ELSE ParseDigits(Tail(digits), MulAdd(result, ToDigit(c)), max)

\* <uN as FromStr>::from_str for an unsigned type with maximum max
ParseUint(t, max) ==
    IF t = <<>> THEN Err(ParseIntError("Empty"))
    ELSE IF t = <<"+">> \/ t = <<"-">> THEN Err(ParseIntError("InvalidDigit"))
    ELSE IF Head(t) = "+" THEN ParseDigits(Tail(t), Uint(0, 0), max)
    ELSE ParseDigits(t, Uint(0, 0), max)

(***************************************************************************)
(* ToString for bool, u16 and u32.                                         *)
(***************************************************************************)
\* mutant: the boolean is written capitalised
BoolToStringCapitalised(b) ==
    IF b THEN <<"T","r","u","e">> ELSE <<"F","a","l","s","e">>

BoolToString(b) == IF b THEN TrueText ELSE FalseText

RECURSIVE UintToString(_)
UintToString(n) ==
    IF Leq(n, Uint(0, 9)) THEN <<DigitChars[Mod10(n) + 1]>>
    ELSE Append(UintToString(Div10(n)), DigitChars[Mod10(n) + 1])

(***************************************************************************)
(* Display of the errors load returns in its Box<dyn Error>.               *)
(***************************************************************************)
NotPresentMsg ==
    <<"e","n","v","i","r","o","n","m","e","n","t"," ","v","a","r","i","a","b","l","e"," ","n","o","t"," ","f","o","u","n","d">>

\* the model's one OS string that is not valid Unicode is the byte 0xFF
NotUnicodeMsg ==
    <<"e","n","v","i","r","o","n","m","e","n","t"," ","v","a","r","i","a","b","l","e"," ","w","a","s"," ","n","o","t"," ","v","a","l","i","d"," ","u","n","i","c","o","d","e",":"," ","\"","\\","x","F","F","\"">>

\* the character U+0060, which a string of this language cannot hold
Backquote == "U+0060"

ParseBoolMsg ==
    <<"p","r","o","v","i","d","e","d"," ","s","t","r","i","n","g"," ","w","a","s"," ","n","o","t"," ",Backquote,"t","r","u","e",Backquote," ","o","r"," ",Backquote,"f","a","l","s","e",Backquote>>

EmptyMsg ==
    <<"c","a","n","n","o","t"," ","p","a","r","s","e"," ","i","n","t","e","g","e","r"," ","f","r","o","m"," ","e","m","p","t","y"," ","s","t","r","i","n","g">>

InvalidDigitMsg ==
    <<"i","n","v","a","l","i","d"," ","d","i","g","i","t"," ","f","o","u","n","d"," ","i","n"," ","s","t","r","i","n","g">>

PosOverflowMsg ==
    <<"n","u","m","b","e","r"," ","t","o","o"," ","l","a","r","g","e"," ","t","o"," ","f","i","t"," ","i","n"," ","t","a","r","g","e","t"," ","t","y","p","e">>

Display(e) ==
    IF e.type = "VarError"
    THEN (IF e.variant = "NotPresent" THEN NotPresentMsg ELSE NotUnicodeMsg)
    ELSE IF e.type = "ParseBoolError" THEN ParseBoolMsg
    ELSE IF e.kind = "Empty" THEN EmptyMsg
    ELSE IF e.kind = "InvalidDigit" THEN InvalidDigitMsg
    ELSE PosOverflowMsg

(***************************************************************************)
(* Envar::load.                                                            *)
(***************************************************************************)
\* what self.load() returns in environment e
Load(e, self) ==
    LET key == self.key
        raw == EnvVar(e, key)
    IN  IF ~raw.ok THEN Err(raw.err)
        ELSE IF self.tag = "String" THEN Ok(LoadedString(key, raw.val))
        ELSE IF self.tag = "Bool"
        THEN (LET val == ParseBool(raw.val)
              IN  IF ~val.ok THEN Err(val.err) ELSE Ok(LoadedBool(key, val.val)))
        ELSE IF self.tag = "U16"
        THEN (LET val == ParseUint(raw.val, U16_MAX)
              IN  IF ~val.ok THEN Err(val.err) ELSE Ok(LoadedU16(key, val.val)))
        ELSE (LET val == ParseUint(raw.val, U32_MAX)
              IN  IF ~val.ok THEN Err(val.err) ELSE Ok(LoadedU32(key, val.val)))

\* mutant: a load that finds the variable unset sets it to the empty string
loadSettingDefault(self) ==
    LET ret == Load(env, self)
    IN  /\ call' = [op |-> "load", self |-> self, ret |-> ret]
        /\ held' = IF ret.ok THEN ret.val ELSE held
        /\ env' = IF env[self.key].set THEN env
                  ELSE [env EXCEPT ![self.key] = Unicode(<<>>)]
        /\ UNCHANGED <<dirs, stdout>>

load(self) ==
    LET ret == Load(env, self)
    IN  /\ call' = [op |-> "load", self |-> self, ret |-> ret]
        /\ held' = IF ret.ok THEN ret.val ELSE held
        /\ UNCHANGED <<env, dirs, stdout>>

(***************************************************************************)
(* LoadedEnvar::export.                                                    *)
(***************************************************************************)
Prefix ==
    <<"c","a","r","g","o",":","r","u","s","t","c","-","e","n","v","=">>

\* mutant: a string is written with Debug formatting, between quotes
ExportValDebug(self) ==
    IF self.tag = "String" THEN <<"\"">> \o self.s \o <<"\"">>
    ELSE IF self.tag = "Bool" THEN BoolToString(self.b)
    ELSE UintToString(self.n)

\* the (key, val) pair export formats
ExportVal(self) ==
    IF self.tag = "String" THEN self.s
    ELSE IF self.tag = "Bool" THEN BoolToString(self.b)
    ELSE UintToString(self.n)

\* println!("cargo:rustc-env={}={}", key, val)
Println(self) == Prefix \o self.key \o <<"=">> \o ExportVal(self) \o <<LF>>

\* the newline characters of a text
RECURSIVE CountLF(_)
CountLF(t) ==
    IF t = <<>> THEN 0
    ELSE (IF Head(t) = LF THEN 1 ELSE 0) + CountLF(Tail(t))

export ==
    /\ held /= NoValue
    /\ CountLF(stdout) < MaxOut
    /\ stdout' = stdout \o Println(held)
    /\ call' = [op |-> "export", self |-> held]
    /\ UNCHANGED <<env, dirs, held>>

(***************************************************************************)
(* init, which is dotenvy::dotenv(): find the nearest dotfile from the     *)
(* working directory upward, then set every variable of the file that the  *)
(* environment does not already hold.                                      *)
(***************************************************************************)
NoDotfile == [file |-> FALSE]

Dotfile(items) == [file |-> TRUE, items |-> items]

\* a line of a dotfile as its parser yields it: a key and value, or an error
Item(key, value) == [ok |-> TRUE, key |-> key, value |-> value]

BadLine == [ok |-> FALSE]

\* Finder::find: the first directory, from ds[i] upward, that holds a dotfile
RECURSIVE Find(_, _)
Find(ds, i) ==
    IF ds[i].file THEN Ok(i)
    ELSE IF i < Len(ds) THEN Find(ds, i + 1)
    ELSE Err([type |-> "dotenvy::Error", variant |-> "Io"])

\* mutant: every item overrides what the environment holds
RECURSIVE LoadItemsOverride(_, _)
LoadItemsOverride(e, items) ==
    IF items = <<>> THEN [env |-> e, ok |-> TRUE]
    ELSE LET item == Head(items)
         IN  IF ~item.ok THEN [env |-> e, ok |-> FALSE]
             ELSE LoadItemsOverride([e EXCEPT ![item.key] = Unicode(item.value)],
                                    Tail(items))

\* Iter::load: the environment after the items, and whether a line failed
RECURSIVE LoadItems(_, _)
LoadItems(e, items) ==
    IF items = <<>> THEN [env |-> e, ok |-> TRUE]
    ELSE LET item == Head(items)
         IN  IF ~item.ok THEN [env |-> e, ok |-> FALSE]
             ELSE IF ~EnvVar(e, item.key).ok
             THEN LoadItems([e EXCEPT ![item.key] = Unicode(item.value)], Tail(items))
             ELSE LoadItems(e, Tail(items))

init ==
    LET found == Find(dirs, 1)
    IN  IF ~found.ok
        THEN /\ call' = [op |-> "init", ret |-> Err(found.err)]
             /\ UNCHANGED <<env, dirs, stdout, held>>
        ELSE LET loaded == LoadItems(env, dirs[found.val].items)
             IN  /\ env' = loaded.env
                 /\ call' = [op |-> "init",
                             ret |-> IF loaded.ok THEN Ok(found.val)
                                     ELSE Err([type |-> "dotenvy::Error",
                                               variant |-> "LineParse"])]
                 /\ UNCHANGED <<dirs, stdout, held>>

(***************************************************************************)
(* The inputs: environments and file systems.                              *)
(***************************************************************************)
RECURSIVE SeqsUpTo(_, _)
SeqsUpTo(S, n) ==
    IF n = 0 THEN {<<>>}
    ELSE LET shorter == SeqsUpTo(S, n - 1)
         IN  shorter \cup {Append(q, x) : q \in shorter, x \in S}

\* the values dotfiles give, and one that only a dotfile further up gives
DotValues == {<<"1">>, <<"7">>}

OuterValue == <<"0">>

Items == {Item(k, v) : k \in Names, v \in DotValues} \cup {BadLine}

Files == {Dotfile(q) : q \in SeqsUpTo(Items, MaxItems)}

OuterDirs == {NoDotfile, Dotfile(<<Item(PORT, OuterValue), Item(SECURE, OuterValue)>>)}

\* the nearest dotfile is any file; the directories above it hold one or none
DirChains ==
    {[i \in 1..MaxDepth |-> NoDotfile]} \cup
    {[i \in 1..MaxDepth |-> IF i < p THEN NoDotfile
                            ELSE IF i = p THEN f
                            ELSE above[i]] :
        p \in 1..MaxDepth, f \in Files, above \in [1..MaxDepth -> OuterDirs]}

SmallEnvValues == {Absent, NotUnicode, Unicode(<<"1">>), Unicode(<<"a">>)}

EnvValues == {Absent, NotUnicode} \cup {Unicode(t) : t \in Texts}

Start ==
    /\ stdout = <<>>
    /\ held = NoValue
    /\ call = [op |-> "start"]

(***************************************************************************)
(* Spec: the three operations in any order, over small inputs.             *)
(***************************************************************************)
Init ==
    /\ env \in [Names -> {Absent, NotUnicode, Unicode(<<"1">>), Unicode(TrueText)}]
    /\ dirs \in {[i \in 1..MaxDepth |-> NoDotfile],
                 [i \in 1..MaxDepth |-> IF i = 1 THEN Dotfile(<<Item(PORT, <<"7">>)>>)
                                        ELSE NoDotfile],
                 [i \in 1..MaxDepth |-> IF i = 1
                                        THEN Dotfile(<<Item(SECURE, <<"7">>), BadLine>>)
                                        ELSE NoDotfile]}
    /\ Start

Next ==
    \/ \E self \in Envar : load(self)
    \/ export
    \/ init

Spec == Init /\ [][Next]_vars

(***************************************************************************)
(* SpecValues: load and export over every text of the bounded set.         *)
(***************************************************************************)
InitValues ==
    /\ env \in {e \in [Names -> EnvValues] : e[SECURE] = Absent}
    /\ dirs = [i \in 1..MaxDepth |-> NoDotfile]
    /\ Start

NextValues ==
    \/ \E self \in Envar : load(self)
    \/ export

SpecValues == InitValues /\ [][NextValues]_vars

(***************************************************************************)
(* SpecDotfile: init over every file system of the bounded set.            *)
(***************************************************************************)
InitDotfile ==
    /\ env \in [Names -> SmallEnvValues]
    /\ dirs \in DirChains
    /\ Start

NextDotfile == init

SpecDotfile == InitDotfile /\ [][NextDotfile]_vars

(***************************************************************************)
(* Helpers of the properties below.                                        *)
(***************************************************************************)
\* the last call was self.load() for a declaration of one of the kinds
LoadedAs(kinds) == call.op = "load" /\ call.self.tag \in kinds

\* the OS string the last load read: load and export leave env alone
Raw == env[call.self.key]

IsText(v) == v.set /\ v.unicode

\* text t occurs in text m
Contains(m, t) ==
    \E i \in 1..(Len(m) - Len(t) + 1) : SubSeq(m, i, i + Len(t) - 1) = t

IsDigits(t) == t /= <<>> /\ \A i \in 1..Len(t) : t[i] \in Digit

\* a text without its one optional leading plus sign
Unsigned(t) == IF t /= <<>> /\ Head(t) = "+" THEN Tail(t) ELSE t

RECURSIVE StripZeros(_)
StripZeros(t) ==
    IF Len(t) > 1 /\ Head(t) = "0" THEN StripZeros(Tail(t)) ELSE t

\* decimal digits without sign or leading zeros
IsCanonical(t) == IsDigits(t) /\ StripZeros(t) = t

\* a <= b for canonical decimal texts: by length, then digit by digit
DecLeq(a, b) ==
    \/ Len(a) < Len(b)
    \/ /\ Len(a) = Len(b)
       /\ \/ a = b
          \/ \E i \in 1..Len(a) :
                /\ SubSeq(a, 1, i - 1) = SubSeq(b, 1, i - 1)
                /\ ToDigit(a[i]) < ToDigit(b[i])

MaxText(tag) ==
    IF tag = "U16" THEN <<"6","5","5","3","5">>
    ELSE <<"4","2","9","4","9","6","7","2","9","5">>

\* digit text d is a decimal numeral of a value in the range of the kind
InRange(d, tag) == IsDigits(d) /\ DecLeq(StripZeros(d), MaxText(tag))

\* what a step appended to standard output
Appended == SubSeq(stdout', Len(stdout) + 1, Len(stdout'))

\* the <value> of an appended `cargo:rustc-env=<key>=<value>` and newline
ValuePart(key) == SubSeq(Appended, Len(Prefix) + Len(key) + 2, Len(Appended) - 1)

\* text c is the canonical text of the payload of loaded value l
IsCanonicalTextOf(c, l) ==
    IF l.tag = "String" THEN c = l.s
    ELSE IF l.tag = "Bool"
    THEN c = (IF l.b THEN <<"t","r","u","e">> ELSE <<"f","a","l","s","e">>)
    ELSE IsCanonical(c) /\ ParseUint(c, U32_MAX) = Ok(l.n)

(***************************************************************************)
(* C1: for every kind of declaration, when the declaration's name is not   *)
(* set in the environment, load() returns the missing-variable error       *)
(* (VarError::NotPresent) and no loaded value.                             *)
(***************************************************************************)
C1_MissingVariable ==
    (LoadedAs(Kinds) /\ ~Raw.set) =>
        /\ ~call.ret.ok
        /\ call.ret.err = [type |-> "VarError", variant |-> "NotPresent"]

C1_Witness ==
    /\ LoadedAs({"U32"})
    /\ call.self.key = PORT
    /\ ~Raw.set
    /\ ~call.ret.ok

C3_DigitsOnly ==
    (LoadedAs({"U16", "U32"}) /\ IsText(Raw)) =>
        IF InRange(Raw.text, call.self.tag)
        THEN /\ call.ret.ok
             /\ UintToString(call.ret.val.n) = StripZeros(Raw.text)
        ELSE /\ ~call.ret.ok
             /\ call.ret.err.type = "ParseIntError"

(***************************************************************************)
(* C3, amended: load() returns the loaded integer n exactly when t is an   *)
(* optional single plus sign followed by one or more decimal digits        *)
(* (leading zeros allowed) whose value n is in [0, 65535]                  *)
(* ([0, 4294967295]), and an integer parse error for every other t.        *)
(***************************************************************************)
C3_ParseUnsigned ==
    (LoadedAs({"U16", "U32"}) /\ IsText(Raw)) =>
        IF InRange(Unsigned(Raw.text), call.self.tag)
        THEN /\ call.ret.ok
             /\ UintToString(call.ret.val.n) = StripZeros(Unsigned(Raw.text))
        ELSE /\ ~call.ret.ok
             /\ call.ret.err.type = "ParseIntError"

C3_Witness ==
    /\ LoadedAs({"U16"})
    /\ Raw = Unicode(<<"+","6","5","5","3","5">>)
    /\ call.ret = Ok(LoadedU16(PORT, Uint(0, 65535)))

(***************************************************************************)
(* C4: for a Bool declaration whose variable is set to text t, load()      *)
(* returns loaded true if t is exactly "true", loaded false if t is        *)
(* exactly "false", and the boolean parse error for every other t.         *)
(***************************************************************************)
C4_ParseBool ==
    (LoadedAs({"Bool"}) /\ IsText(Raw)) =>
        IF Raw.text = <<"t","r","u","e">>
        THEN call.ret.ok /\ call.ret.val.tag = "Bool" /\ call.ret.val.b = TRUE
        ELSE IF Raw.text = <<"f","a","l","s","e">>
        THEN call.ret.ok /\ call.ret.val.tag = "Bool" /\ call.ret.val.b = FALSE
        ELSE /\ ~call.ret.ok
             /\ call.ret.err.type = "ParseBoolError"

C4_Witness ==
    /\ LoadedAs({"Bool"})
    /\ Raw = Unicode(<<"T","r","u","e">>)
    /\ ~call.ret.ok

(***************************************************************************)
(* C5, as stated: for a String declaration whose variable is set to any    *)
(* value v, load() succeeds and the loaded value carries exactly v.        *)
(***************************************************************************)
C5_AnyValue ==
    (LoadedAs({"String"}) /\ Raw.set) =>
        /\ call.ret.ok
        /\ IsText(Raw) => call.ret.val.s = Raw.text

(***************************************************************************)
(* C5, amended: for a String declaration whose variable is set to any      *)
(* value v that is valid Unicode (the empty string and surrounding         *)
(* whitespace included), load() succeeds and the loaded value carries      *)
(* exactly v; a value that is not valid Unicode makes load() fail with     *)
(* VarError::NotUnicode.                                                   *)
(***************************************************************************)
C5_UnicodeValue ==
    (LoadedAs({"String"}) /\ Raw.set) =>
        IF Raw.unicode
        THEN /\ call.ret.ok
             /\ call.ret.val.tag = "String"
             /\ call.ret.val.s = Raw.text
        ELSE /\ ~call.ret.ok
             /\ call.ret.err = [type |-> "VarError", variant |-> "NotUnicode"]

C5_Witness ==
    /\ LoadedAs({"String"})
    /\ Raw = Unicode(<<" ", "a">>)
    /\ call.ret.ok
    /\ call.ret.val.s = <<" ", "a">>

C7_RoundTripRaw ==
    [][(call.op = "load" /\ call.ret.ok /\ call'.op = "export") =>
          Appended = Prefix \o call.self.key \o <<"=">> \o Raw.text \o <<LF>>]_vars

(***************************************************************************)
(* C7, amended: for every raw value r that load() accepts, load() followed *)
(* by export() emits cargo:rustc-env=<name>=<c>, where c is r itself for   *)
(* String and Bool, and for U16 and U32 c is r without its optional        *)
(* leading plus sign and without its leading zeros; so c = r exactly when  *)
(* r is written canonically.                                               *)
(***************************************************************************)
C7_RoundTripCanonical ==
    [][(call.op = "load" /\ call.ret.ok /\ call'.op = "export") =>
          LET c == IF call.self.tag \in {"String", "Bool"} THEN Raw.text
                   ELSE StripZeros(Unsigned(Raw.text))
          IN  Appended = Prefix \o call.self.key \o <<"=">> \o c \o <<LF>>]_vars

C7_Witness ==
    /\ call.op = "export"
    /\ held = LoadedU16(PORT, Uint(0, 7))
    /\ env[PORT] = Unicode(<<"+","7">>)
    /\ stdout = Prefix \o PORT \o <<"=", "7", LF>>

(***************************************************************************)
(* C8, as stated, for a dotfile in the working directory: after a          *)
(* successful init() the environment maps every KEY of the file to a VALUE *)
(* the file gives it, overwriting what KEY was set to before.              *)
(***************************************************************************)
C8_Overwrites ==
    [][(call'.op = "init" /\ call'.ret.ok /\ dirs[1].file) =>
          \A i \in 1..Len(dirs[1].items) :
              LET key == dirs[1].items[i].key
              IN  \E j \in 1..Len(dirs[1].items) :
                      /\ dirs[1].items[j].key = key
                      /\ env'[key] = Unicode(dirs[1].items[j].value)]_vars

(***************************************************************************)
(* C8, amended: a successful init() returns the path of the nearest        *)
(* dotfile, searched from the working directory upward through its         *)
(* ancestors; afterwards every KEY of that file that was unset (or held a  *)
(* value that is not valid Unicode) maps to the VALUE of its first entry   *)
(* in the file, and every KEY already set to valid Unicode keeps its       *)
(* value, as does every variable the file does not name; init() fails,     *)
(* leaving the environment alone, when neither the working directory nor   *)
(* any ancestor holds a dotfile.                                           *)
(***************************************************************************)
C8_InitKeepsExisting ==
    [][call'.op = "init" =>
          LET holding == {i \in 1..Len(dirs) : dirs[i].file}
          IN  IF holding = {} THEN ~call'.ret.ok /\ env' = env
              ELSE LET p == CHOOSE i \in holding : \A j \in holding : i <= j
                       items == dirs[p].items
                       lines(k) == {i \in 1..Len(items) : items[i].ok /\ items[i].key = k}
                       first(k) == CHOOSE i \in lines(k) : \A j \in lines(k) : i <= j
                   IN  IF \E i \in 1..Len(items) : ~items[i].ok
                       THEN ~call'.ret.ok
                       ELSE /\ call'.ret = Ok(p)
                            /\ \A k \in Names :
                                  env'[k] = IF IsText(env[k]) \/ lines(k) = {}
                                            THEN env[k]
                                            ELSE Unicode(items[first(k)].value)]_vars

\* the nearest dotfile is the parent's; PORT kept its value, SECURE was inserted
C8_Witness ==
    /\ call.op = "init"
    /\ ~dirs[1].file
    /\ call.ret = Ok(2)
    /\ dirs[2].items = <<Item(PORT, <<"7">>), Item(SECURE, <<"7">>)>>
    /\ env[PORT] = Unicode(<<"a">>)
    /\ env[SECURE] = Unicode(<<"7">>)

(***************************************************************************)
(* C9: in any sequence of init(), load() and export() calls the            *)
(* environment changes only in init() steps: every load() step, whether it *)
(* succeeds or fails, and every export() step leaves it unchanged.         *)
(***************************************************************************)
C9_OnlyInitWrites ==
    [][/\ env' /= env => call'.op = "init"
       /\ call'.op \in {"load", "export"} => env' = env]_vars

\* init has set PORT from the dotfile, and a load and an export have followed
C9_Witness ==
    /\ call.op = "export"
    /\ env[PORT] = Unicode(<<"7">>)
    /\ held = LoadedU16(PORT, Uint(0, 7))
    /\ stdout /= <<>>

(***************************************************************************)
(* C10: every loaded value load() returns has the variant tag of the       *)
(* declaration it was loaded from and carries that declaration's name.     *)
(***************************************************************************)
C10_TagAndName ==
    (LoadedAs(Kinds) /\ call.ret.ok) =>
        /\ call.ret.val.tag = call.self.tag
        /\ call.ret.val.key = call.self.key

C10_Witness ==
    /\ LoadedAs({"U32"})
    /\ call.ret.ok
    /\ call.ret.val = LoadedU32(PORT, Uint(42949, 67295))

====
